---- MODULE Spec2Model ----
(***************************************************************************)
(* Model of video_core/vulkan_common/vulkan_surface.cpp: CreateSurface and *)
(* the Apple view-layer adapter MetalLayer.                                *)
(*                                                                         *)
(* One CreateSurface call is one atomic action.  The preprocessor branches *)
(* (#ifdef _WIN32, __APPLE__, neither) are modelled by the variable build, *)
(* fixed in Init.  Everything outside the file (the Objective-C runtime,   *)
(* the Vulkan loader and driver) is an environment whose answers are drawn *)
(* with \E.  Every external call the function makes is appended, in        *)
(* program order, to the trace of the call kept in last.                   *)
(***************************************************************************)
EXTENDS Integers, Sequences, FiniteSets, TLC

\* ---- bounds ----
NumInstances == 2
NumViews == 1
MaxObjects == 2

Instances == 1..NumInstances
RenderSurfaces == 1..NumViews

\* the display connection of the window whose render surface is v (a handle
\* value no render surface has)
DisplayOf(v) == NumViews + v

\* backingScaleFactor of a screen: a standard and a high-density display
BackingScaleFactors == {1, 2}

\* contentsScale of a layer returned by [CAMetalLayer layer] before anyone
\* sets it
DefaultContentsScale == 1

Builds == {"Win32", "Apple", "Unix"}

\* Core::Frontend::WindowSystemType; "Unsupported" stands for every
\* enumerator no builder of the file tests for
WindowSystemType == {"Unsupported", "Windows", "MacOs", "X11", "Wayland"}

EntryPoints == {"vkCreateWin32SurfaceKHR", "vkCreateMetalSurfaceEXT",
                "vkCreateXlibSurfaceKHR", "vkCreateWaylandSurfaceKHR"}

\* the surface-creation entry points the code of a build refers to
BuildEntryPoints(b) ==
    CASE b = "Win32" -> {"vkCreateWin32SurfaceKHR"}
      [] b = "Apple" -> {"vkCreateMetalSurfaceEXT"}
      [] b = "Unix"  -> {"vkCreateXlibSurfaceKHR", "vkCreateWaylandSurfaceKHR"}

\* the window kinds a build has a builder for
CompiledTypes(b) ==
    CASE b = "Win32" -> {"Windows"}
      [] b = "Apple" -> {"MacOs"}
      [] b = "Unix"  -> {"X11", "Wayland"}

\* the entry point of the builder of a window kind
EntryPointOf(t) ==
    CASE t = "Windows" -> "vkCreateWin32SurfaceKHR"
      [] t = "MacOs"   -> "vkCreateMetalSurfaceEXT"
      [] t = "X11"     -> "vkCreateXlibSurfaceKHR"
      [] t = "Wayland" -> "vkCreateWaylandSurfaceKHR"
      [] OTHER         -> "none"

\* results of a native vkCreate*Surface* call: VK_SUCCESS with a handle
\* written, VK_SUCCESS with the output left null, a non-success status
NativeOutcomes == {"ok", "okNull", "err"}

VARIABLES
    build,          \* the target platform the file was compiled for
    dld,            \* dld[i]: entry points vkGetInstanceProcAddr resolves on instance i
    views,          \* views[v]: wantsLayer and layer of the native view v
    contentsScale,  \* contentsScale[l]: contentsScale of layer l (layers are 1..Len)
    surfaces,       \* surfaces[h]: the native surface with handle h
    owned,          \* the live vk::SurfaceKHR wrappers held by callers
    last            \* the most recent CreateSurface call and what it did

vars == <<build, dld, views, contentsScale, surfaces, owned, last>>

\* ---- the trace of external calls of one CreateSurface call ----
NoCI == [sType |-> "none", pNext |-> 0, flags |-> 0, a |-> 0, b |-> 0]

\* op: the function or selector; name: a string argument; obj: the receiver
\* or instance; arg: an integer argument; ret: the value returned or written
Ev(op, name, obj, arg, ret, ci) ==
    [op |-> op, name |-> name, obj |-> obj, arg |-> arg, ret |-> ret, ci |-> ci]

B2N(b) == IF b THEN 1 ELSE 0

RECURSIVE CountOp(_, _)
CountOp(tr, ops) ==
    IF tr = <<>> THEN 0
    ELSE (IF Head(tr).op \in ops THEN 1 ELSE 0) + CountOp(Tail(tr), ops)

\* index of the first event with op in ops, 0 when there is none
FirstOp(tr, ops) ==
    IF \E k \in 1..Len(tr) : tr[k].op \in ops
    THEN CHOOSE k \in 1..Len(tr) :
            tr[k].op \in ops /\ \A j \in 1..(k-1) : tr[j].op \notin ops
    ELSE 0

\* ---- the local state of one CreateSurface call ----
\* views, contentsScale, surfaces: the outside world as the call has changed
\* it so far; unsafe_surface: the local of line 77 (0 is nullptr); thrown:
\* a vk::Exception is propagating; layer: what MetalLayer returned
StartOfCall ==
    [views |-> views, contentsScale |-> contentsScale, surfaces |-> surfaces,
     unsafe_surface |-> 0, thrown |-> FALSE, layer |-> 0, trace |-> <<>>]

\* throw vk::Exception(VK_ERROR_INITIALIZATION_FAILED)
Throw(st) ==
    [st EXCEPT !.thrown = TRUE,
               !.trace = Append(@, Ev("throw", "VK_ERROR_INITIALIZATION_FAILED",
                                      0, 0, 0, NoCI))]

\* dld.vkGetInstanceProcAddr(*instance, name)
GetInstanceProcAddr(st, instance, name) ==
    [st EXCEPT !.trace = Append(@, Ev("vkGetInstanceProcAddr", name, instance, 0,
                                      B2N(name \in dld[instance]), NoCI))]

\* fn(*instance, &ci, nullptr, &unsafe_surface): the driver creates a surface
\* on the instance and writes its handle, or leaves the output as it was
NativeCreate(st, fn, instance, ci, outcome) ==
    LET handle == Len(st.surfaces) + 1 IN
    IF outcome = "ok"
    THEN [st EXCEPT !.surfaces = Append(@, [instance |-> instance,
                                            destroyedBy |-> <<>>]),
                    !.unsafe_surface = handle,
                    !.trace = Append(@, Ev(fn, outcome, instance, 0, handle, ci))]
    ELSE [st EXCEPT !.trace = Append(@, Ev(fn, outcome, instance, 0,
                                           st.unsafe_surface, ci))]

\* MetalLayer without the setContentsScale: message
MetalLayer_noScale(st, render_surface, env) ==
    LET view == render_surface
        t1 == Append(st.trace, Ev("objc_getClass", "CAMetalLayer", 0, 0,
                                  B2N(env.clsOk), NoCI))
        layer == IF env.layerOk THEN Len(st.contentsScale) + 1 ELSE 0
        t2 == Append(t1, Ev("layer", "CAMetalLayer", 0, 0, layer, NoCI))
        factor == IF env.screen = 0 THEN 0 ELSE env.scale
        t6 == t2 \o <<Ev("setWantsLayer:", "", view, 1, 0, NoCI),
                       Ev("setLayer:", "", view, layer, 0, NoCI),
                       Ev("mainScreen", "NSScreen", 0, 0, env.screen, NoCI),
                       Ev("backingScaleFactor", "", env.screen, 0, factor, NoCI)>>
    IN
    IF ~env.clsOk THEN [st EXCEPT !.trace = t1, !.layer = 0]
    ELSE IF layer = 0 THEN [st EXCEPT !.trace = t2, !.layer = 0]
    ELSE [st EXCEPT !.views = [@ EXCEPT ![view] = [wantsLayer |-> TRUE,
                                                   layer |-> layer]],
                    !.contentsScale = Append(@, DefaultContentsScale),
                    !.trace = t6, !.layer = layer]

\* ---- the view-layer adapter ----
\* env.clsOk: objc_getClass("CAMetalLayer") is not Nil; env.layerOk:
\* [CAMetalLayer layer] is not nil; env.screen: [NSScreen mainScreen] (0 nil);
\* env.scale: backingScaleFactor of that screen
MetalLayer(st, render_surface, env) ==
    LET view == render_surface
        t1 == Append(st.trace, Ev("objc_getClass", "CAMetalLayer", 0, 0,
                                  B2N(env.clsOk), NoCI))
    IN
    IF ~env.clsOk THEN [st EXCEPT !.trace = t1, !.layer = 0]
    ELSE
    LET layer == IF env.layerOk THEN Len(st.contentsScale) + 1 ELSE 0
        t2 == Append(t1, Ev("layer", "CAMetalLayer", 0, 0, layer, NoCI))
    IN
    IF layer = 0 THEN [st EXCEPT !.trace = t2, !.layer = 0]
    ELSE
    LET cs0 == Append(st.contentsScale, DefaultContentsScale)
        \* [view setWantsLayer:YES]
        v1 == [st.views EXCEPT ![view].wantsLayer = TRUE]
        t3 == Append(t2, Ev("setWantsLayer:", "", view, 1, 0, NoCI))
        \* [view setLayer:layer]
        v2 == [v1 EXCEPT ![view].layer = layer]
        t4 == Append(t3, Ev("setLayer:", "", view, layer, 0, NoCI))
        \* [NSScreen mainScreen]
        screen == env.screen
        t5 == Append(t4, Ev("mainScreen", "NSScreen", 0, 0, screen, NoCI))
        \* [screen backingScaleFactor]; a message to nil returns 0.0
        factor == IF screen = 0 THEN 0 ELSE env.scale
        t6 == Append(t5, Ev("backingScaleFactor", "", screen, 0, factor, NoCI))
        \* layer.contentsScale = factor
        cs1 == [cs0 EXCEPT ![layer] = factor]
        t7 == Append(t6, Ev("setContentsScale:", "", layer, factor, 0, NoCI))
    IN [st EXCEPT !.views = v2, !.contentsScale = cs1, !.trace = t7,
                  !.layer = layer]

\* the resolve, test and call common to the faulty variants below
ResolveAndCall(st, instance, fn, ci, env) ==
    LET st1 == GetInstanceProcAddr(st, instance, fn) IN
    IF fn \notin dld[instance] THEN Throw(st1)
    ELSE LET st2 == NativeCreate(st1, fn, instance, ci, env.native)
         IN IF env.native = "err" THEN Throw(st2) ELSE st2

XlibCI(window_info) ==
    [sType |-> "VK_STRUCTURE_TYPE_XLIB_SURFACE_CREATE_INFO_KHR",
     pNext |-> 0, flags |-> 0,
     a |-> window_info.display_connection, b |-> window_info.render_surface]

WaylandCI(window_info) ==
    [sType |-> "VK_STRUCTURE_TYPE_WAYLAND_SURFACE_CREATE_INFO_KHR",
     pNext |-> 0, flags |-> 0,
     a |-> window_info.display_connection, b |-> window_info.render_surface]

MetalCI(layer) ==
    [sType |-> "VK_STRUCTURE_TYPE_METAL_SURFACE_CREATE_INFO_EXT",
     pNext |-> 0, flags |-> 0, a |-> layer, b |-> 0]

\* MetalBlock without the test of window_info.type
MetalBlock_anyType(st, instance, window_info, env) ==
    IF build # "Apple" \/ st.thrown THEN st
    ELSE LET st0 == MetalLayer(st, window_info.render_surface, env)
         IN ResolveAndCall(st0, instance, "vkCreateMetalSurfaceEXT",
                           MetalCI(st0.layer), env)

\* MetalBlock resolving the entry point, and failing on its absence, before
\* it runs the adapter
MetalBlock_resolveFirst(st, instance, window_info, env) ==
    IF build # "Apple" \/ st.thrown \/ window_info.type # "MacOs" THEN st
    ELSE
    LET st1 == GetInstanceProcAddr(st, instance, "vkCreateMetalSurfaceEXT") IN
    IF "vkCreateMetalSurfaceEXT" \notin dld[instance] THEN Throw(st1)
    ELSE LET st0 == MetalLayer(st1, window_info.render_surface, env)
             st2 == NativeCreate(st0, "vkCreateMetalSurfaceEXT", instance,
                                 MetalCI(st0.layer), env.native)
         IN IF env.native = "err" THEN Throw(st2) ELSE st2

\* XlibBlock calling through the resolved pointer without testing it
XlibBlock_noNullTest(st, instance, window_info, env) ==
    IF build # "Unix" \/ st.thrown \/ window_info.type # "X11" THEN st
    ELSE
    LET st1 == GetInstanceProcAddr(st, instance, "vkCreateXlibSurfaceKHR")
        st2 == NativeCreate(st1, "vkCreateXlibSurfaceKHR", instance,
                            XlibCI(window_info), env.native)
    IN IF env.native = "err" THEN Throw(st2) ELSE st2

\* XlibBlock trying the Wayland entry point when its own builder fails
XlibBlock_fallback(st, instance, window_info, env) ==
    IF build # "Unix" \/ st.thrown \/ window_info.type # "X11" THEN st
    ELSE
    LET st1 == GetInstanceProcAddr(st, instance, "vkCreateXlibSurfaceKHR")
        st2 == NativeCreate(st1, "vkCreateXlibSurfaceKHR", instance,
                            XlibCI(window_info), env.native)
    IN
    IF "vkCreateXlibSurfaceKHR" \notin dld[instance]
    THEN ResolveAndCall(st1, instance, "vkCreateWaylandSurfaceKHR",
                        WaylandCI(window_info), env)
    ELSE IF env.native = "err"
    THEN ResolveAndCall(st2, instance, "vkCreateWaylandSurfaceKHR",
                        WaylandCI(window_info), env)
    ELSE st2

\* WaylandBlock compiled into every build
WaylandBlock_anyBuild(st, instance, window_info, env) ==
    IF st.thrown \/ window_info.type # "Wayland" THEN st
    ELSE ResolveAndCall(st, instance, "vkCreateWaylandSurfaceKHR",
                        WaylandCI(window_info), env)

\* WaylandBlock with the status test inverted (== VK_SUCCESS)
WaylandBlock_invertedStatus(st, instance, window_info, env) ==
    IF build # "Unix" \/ st.thrown \/ window_info.type # "Wayland" THEN st
    ELSE
    LET st1 == GetInstanceProcAddr(st, instance, "vkCreateWaylandSurfaceKHR") IN
    IF "vkCreateWaylandSurfaceKHR" \notin dld[instance] THEN Throw(st1)
    ELSE LET st2 == NativeCreate(st1, "vkCreateWaylandSurfaceKHR", instance,
                                 WaylandCI(window_info), env.native)
         IN IF env.native # "err" THEN Throw(st2) ELSE st2

\* ---- the per-platform builders ----
Win32Block(st, instance, window_info, env) ==
    IF build # "Win32" \/ st.thrown \/ window_info.type # "Windows" THEN st
    ELSE
    LET hWnd == window_info.render_surface
        win32_ci == [sType |-> "VK_STRUCTURE_TYPE_WIN32_SURFACE_CREATE_INFO_KHR",
                     pNext |-> 0, flags |-> 0, a |-> 0, b |-> hWnd]
        st1 == GetInstanceProcAddr(st, instance, "vkCreateWin32SurfaceKHR")
    IN
    IF "vkCreateWin32SurfaceKHR" \notin dld[instance] THEN Throw(st1)
    ELSE LET st2 == NativeCreate(st1, "vkCreateWin32SurfaceKHR", instance,
                                 win32_ci, env.native)
         IN IF env.native = "err" THEN Throw(st2) ELSE st2

MetalBlock(st, instance, window_info, env) ==
    IF build # "Apple" \/ st.thrown \/ window_info.type # "MacOs" THEN st
    ELSE
    LET st0 == MetalLayer(st, window_info.render_surface, env)
        layer == st0.layer
        metal_ci == [sType |-> "VK_STRUCTURE_TYPE_METAL_SURFACE_CREATE_INFO_EXT",
                     pNext |-> 0, flags |-> 0, a |-> layer, b |-> 0]
        st1 == GetInstanceProcAddr(st0, instance, "vkCreateMetalSurfaceEXT")
    IN
    IF "vkCreateMetalSurfaceEXT" \notin dld[instance] THEN Throw(st1)
    ELSE LET st2 == NativeCreate(st1, "vkCreateMetalSurfaceEXT", instance,
                                 metal_ci, env.native)
         IN IF env.native = "err" THEN Throw(st2) ELSE st2

XlibBlock(st, instance, window_info, env) ==
    IF build # "Unix" \/ st.thrown \/ window_info.type # "X11" THEN st
    ELSE
    LET xlib_ci == [sType |-> "VK_STRUCTURE_TYPE_XLIB_SURFACE_CREATE_INFO_KHR",
                    pNext |-> 0, flags |-> 0,
                    a |-> window_info.display_connection,
                    b |-> window_info.render_surface]
        st1 == GetInstanceProcAddr(st, instance, "vkCreateXlibSurfaceKHR")
    IN
    IF "vkCreateXlibSurfaceKHR" \notin dld[instance] THEN Throw(st1)
    ELSE LET st2 == NativeCreate(st1, "vkCreateXlibSurfaceKHR", instance,
                                 xlib_ci, env.native)
         IN IF env.native = "err" THEN Throw(st2) ELSE st2

WaylandBlock(st, instance, window_info, env) ==
    IF build # "Unix" \/ st.thrown \/ window_info.type # "Wayland" THEN st
    ELSE
    LET wayland_ci == [sType |-> "VK_STRUCTURE_TYPE_WAYLAND_SURFACE_CREATE_INFO_KHR",
                       pNext |-> 0, flags |-> 0,
                       a |-> window_info.display_connection,
                       b |-> window_info.render_surface]
        st1 == GetInstanceProcAddr(st, instance, "vkCreateWaylandSurfaceKHR")
    IN
    IF "vkCreateWaylandSurfaceKHR" \notin dld[instance] THEN Throw(st1)
    ELSE LET st2 == NativeCreate(st1, "vkCreateWaylandSurfaceKHR", instance,
                                 wayland_ci, env.native)
         IN IF env.native = "err" THEN Throw(st2) ELSE st2

\* NullCheck without the throw
NullCheck_noThrow(st) == st

\* if (!unsafe_surface) throw
NullCheck(st) ==
    IF st.thrown THEN st
    ELSE IF st.unsafe_surface = 0 THEN Throw(st) ELSE st

\* the vk::SurfaceKHR of handle 0: no wrapper
NullSurface == [handle |-> 0, owner |-> 0, dld |-> 0]

\* ReturnValue binding the handle to another instance than the one passed
ReturnValue_otherInstance(st, instance) ==
    IF st.thrown THEN NullSurface
    ELSE [handle |-> st.unsafe_surface, owner |-> (instance % NumInstances) + 1,
          dld |-> (instance % NumInstances) + 1]

\* return vk::SurfaceKHR(unsafe_surface, *instance, dld)
ReturnValue(st, instance) ==
    IF st.thrown THEN NullSurface
    ELSE [handle |-> st.unsafe_surface, owner |-> instance, dld |-> instance]

\* the whole body of CreateSurface on the state at the start of the call
Body(instance, window_info, env) ==
    NullCheck(
     WaylandBlock(
      XlibBlock(
       MetalBlock(
        Win32Block(StartOfCall, instance, window_info, env),
        instance, window_info, env),
       instance, window_info, env),
      instance, window_info, env))

WindowInfos ==
    {[type |-> t, render_surface |-> v, display_connection |-> DisplayOf(v)] :
        t \in WindowSystemType, v \in RenderSurfaces}

Envs ==
    [clsOk : BOOLEAN, layerOk : BOOLEAN, screen : 0..1, scale : BackingScaleFactors,
     native : NativeOutcomes]

NoCall ==
    [instance |-> 0,
     window_info |-> [type |-> "Unsupported", render_surface |-> 0,
                      display_connection |-> 0],
     result |-> "none", surface |-> NullSurface, layer |-> 0, trace |-> <<>>,
     env |-> [clsOk |-> TRUE, layerOk |-> TRUE, screen |-> 1, scale |-> 1,
              native |-> "ok"]]

Init ==
    /\ build \in Builds
    \* instance 1 was created with any of the surface extensions of the
    \* platform enabled, the other instances with all of them
    /\ dld \in {f \in [Instances -> SUBSET BuildEntryPoints(build)] :
                   \A i \in Instances : i > 1 => f[i] = BuildEntryPoints(build)}
    /\ views = [v \in RenderSurfaces |-> [wantsLayer |-> FALSE, layer |-> 0]]
    /\ contentsScale = <<>>
    /\ surfaces = <<>>
    /\ owned = {}
    /\ last = NoCall

CreateSurfaceWith(instance, window_info, env) ==
    \* the native objects (surfaces and layers) made so far
    /\ Len(surfaces) + Len(contentsScale) < MaxObjects
    /\ \E st \in {Body(instance, window_info, env)} :
       LET ret == ReturnValue(st, instance)
       IN /\ views' = st.views
          /\ contentsScale' = st.contentsScale
          /\ surfaces' = st.surfaces
          /\ owned' = IF st.thrown THEN owned ELSE owned \cup {ret}
          /\ last' = [instance |-> instance, window_info |-> window_info,
                      result |-> IF st.thrown THEN "SurfaceInitializationFailed"
                                 ELSE "returned",
                      surface |-> ret, layer |-> st.layer, trace |-> st.trace,
                      env |-> env]
    /\ UNCHANGED <<build, dld>>

\* the environments of a call, one for each combination of the answers the
\* call asks for (an answer it does not ask for is fixed)
EnvsOf(instance, window_info) ==
    LET compiled == window_info.type \in CompiledTypes(build)
        adapter == compiled /\ window_info.type = "MacOs"
        native == compiled /\ EntryPointOf(window_info.type) \in dld[instance]
    IN {e \in Envs :
          /\ ~adapter => e.clsOk
          /\ (~adapter \/ ~e.clsOk) => e.layerOk
          /\ (~adapter \/ ~e.clsOk \/ ~e.layerOk) => e.screen = 1
          /\ (~adapter \/ ~e.clsOk \/ ~e.layerOk \/ e.screen = 0) => e.scale = 1
          /\ ~native => e.native = "ok"}

CreateSurface(instance, window_info) ==
    \E env \in EnvsOf(instance, window_info) :
        CreateSurfaceWith(instance, window_info, env)

\* the end of the lifetime of a wrapper: its destructor calls
\* vkDestroySurfaceKHR of its function table on its owner
DestroySurface(w) ==
    /\ w \in owned
    /\ owned' = owned \ {w}
    /\ surfaces' = [surfaces EXCEPT ![w.handle].destroyedBy =
                        Append(@, [instance |-> w.owner, dld |-> w.dld])]
    /\ UNCHANGED <<build, dld, views, contentsScale, last>>

Next ==
    \/ \E instance \in Instances, window_info \in WindowInfos :
          CreateSurface(instance, window_info)
    \/ \E w \in owned : DestroySurface(w)

Spec == Init /\ [][Next]_vars

\* ---- what the most recent call did ----
Called == last.result # "none"
Failed == last.result = "SurfaceInitializationFailed"
Returned == last.result = "returned"
Compiled == last.window_info.type \in CompiledTypes(build)
AppleCall == Called /\ build = "Apple" /\ last.window_info.type = "MacOs"
\* the Objective-C runtime of the call hands out a layer
LayerAvailable == last.env.clsOk /\ last.env.layerOk
\* the resolver of the instance of the call has the entry point of its builder
EntryPresent == EntryPointOf(last.window_info.type) \in dld[last.instance]
Resolves == CountOp(last.trace, {"vkGetInstanceProcAddr"})
NativeCalls == CountOp(last.trace, EntryPoints)
AdapterCalls ==
    CountOp(last.trace, {"objc_getClass", "layer", "setWantsLayer:", "setLayer:",
                         "mainScreen", "backingScaleFactor", "setContentsScale:"})
\* the native surfaces no wrapper owns and nobody destroyed
Orphans ==
    {h \in 1..Len(surfaces) :
        surfaces[h].destroyedBy = <<>> /\ ~\E w \in owned : w.handle = h}
ThrowEv == Ev("throw", "VK_ERROR_INITIALIZATION_FAILED", 0, 0, 0, NoCI)
LastView == views[last.window_info.render_surface]

\* C1: on the Apple path, when the layer class cannot be resolved or the layer
\* fails to instantiate, the adapter returns a null layer and CreateSurface
\* fails without ever calling vkCreateMetalSurfaceEXT.  (The code goes on to
\* resolve and call the entry point with a null layer.)
C1_NullLayerFailsWithoutNativeCall ==
    (AppleCall /\ ~LayerAvailable) =>
        /\ last.layer = 0
        /\ Failed
        /\ CountOp(last.trace, {"vkCreateMetalSurfaceEXT"}) = 0

\* C2: CreateSurface never returns a null, partial or sentinel surface: a
\* normal return wraps a non-null handle, and when no builder matched, the
\* entry point is absent, the native call reported non-success or left the
\* output null, the caller sees SurfaceInitializationFailed and no surface.
C2_NeverNullSurface ==
    Called =>
        /\ Returned \/ Failed
        /\ Returned => /\ last.surface.handle # 0
                       /\ last.surface.handle \in 1..Len(surfaces)
        /\ (~Compiled \/ ~EntryPresent \/ last.env.native \in {"err", "okNull"})
              => Failed /\ last.surface = NullSurface

\* a call whose native function reported success and left the output null
C2_Witness ==
    /\ Failed /\ Compiled /\ EntryPresent /\ last.env.native = "okNull"
    /\ NativeCalls = 1

\* C3: for a discriminant compiled for the platform, when the resolver
\* returns null for its entry point, CreateSurface fails, makes no native
\* surface-creation call, and no surface handle exists that nobody owns.
C3_AbsentEntryPointFails ==
    (Called /\ Compiled /\ ~EntryPresent) =>
        /\ Failed
        /\ NativeCalls = 0
        /\ last.surface = NullSurface
        /\ Orphans = {}

\* the entry point was asked for and the resolver returned null
C3_Witness ==
    /\ Called /\ Compiled /\ ~EntryPresent /\ Failed
    /\ \E k \in 1..Len(last.trace) :
          /\ last.trace[k].op = "vkGetInstanceProcAddr"
          /\ last.trace[k].ret = 0

\* C4: for a discriminant no builder of the build handles (Unsupported
\* included) CreateSurface fails without any native call: nothing is
\* resolved, nothing is created, the adapter does not run.
C4_UncompiledFailsWithoutCalls ==
    (Called /\ ~Compiled) =>
        /\ Failed
        /\ Resolves = 0
        /\ NativeCalls = 0
        /\ AdapterCalls = 0

\* a window kind of another platform, on an instance that can create surfaces
C4_Witness ==
    /\ Called /\ ~Compiled /\ Failed
    /\ last.window_info.type # "Unsupported"
    /\ dld[last.instance] # {}

\* C5: for a compiled discriminant, with the entry point present and a native
\* call that succeeds with a non-null handle, CreateSurface returns one
\* non-null OwnedSurface that wraps the handle written by the one native
\* call, which is the call of the builder of the discriminant.
C5_SuccessReturnsOneSurface ==
    (Called /\ Compiled /\ EntryPresent /\ last.env.native = "ok") =>
        /\ Returned
        /\ last.surface.handle # 0
        /\ NativeCalls = 1
        /\ \E k \in 1..Len(last.trace) :
              /\ last.trace[k].op = EntryPointOf(last.window_info.type)
              /\ last.trace[k].obj = last.instance
              /\ last.trace[k].ret = last.surface.handle
        /\ Cardinality({w \in owned : w.handle = last.surface.handle}) <= 1
        /\ surfaces[last.surface.handle].instance = last.instance

\* a surface returned and held by the caller
C5_Witness ==
    /\ Called /\ Compiled /\ EntryPresent /\ last.env.native = "ok"
    /\ Returned /\ last.surface \in owned

\* C6: one call resolves at most one entry point and makes at most one native
\* creation call, both of the family of the discriminant; when that builder
\* fails (entry point absent or non-success status) the call fails at once
\* and no other builder is tried.
C6_OneBuilderNoFallback ==
    Called =>
        /\ Resolves <= 1
        /\ NativeCalls <= 1
        /\ \A k \in 1..Len(last.trace) :
              /\ last.trace[k].op = "vkGetInstanceProcAddr"
                    => last.trace[k].name = EntryPointOf(last.window_info.type)
              /\ last.trace[k].op \in EntryPoints
                    => last.trace[k].op = EntryPointOf(last.window_info.type)
        /\ (Compiled /\ (~EntryPresent \/ last.env.native = "err")) =>
              /\ Failed
              /\ Len(last.trace) >= 2
              /\ last.trace[Len(last.trace)] = ThrowEv
              /\ last.trace[Len(last.trace) - 1].op \in
                    (IF EntryPresent THEN EntryPoints
                     ELSE {"vkGetInstanceProcAddr"})

\* an X11 builder failed on a build and an instance that have Wayland too
C6_Witness ==
    /\ Called /\ build = "Unix" /\ last.window_info.type = "X11"
    /\ "vkCreateWaylandSurfaceKHR" \in dld[last.instance]
    /\ (~EntryPresent \/ last.env.native = "err")
    /\ Failed

\* C7: the wrapper CreateSurface returns is bound to the instance and the
\* function table passed to the call, which is the instance the native
\* surface was created on; every native surface is either owned by exactly
\* one live wrapper and not destroyed, or was destroyed exactly once, through
\* the function table of, and on, the instance it was created on.
C7_BoundToCreatingInstance ==
    /\ Returned => /\ last.surface.owner = last.instance
                   /\ last.surface.dld = last.instance
    /\ \A h \in 1..Len(surfaces) :
          LET ws == {w \in owned : w.handle = h}
              made == surfaces[h].instance
          IN \/ /\ Cardinality(ws) = 1
                /\ surfaces[h].destroyedBy = <<>>
                /\ \A w \in ws : w.owner = made /\ w.dld = made
             \/ /\ ws = {}
                /\ surfaces[h].destroyedBy =
                      <<[instance |-> made, dld |-> made]>>

\* a surface was destroyed while another surface of the same instance lives
C7_Witness ==
    \E h1, h2 \in 1..Len(surfaces) :
        /\ h1 # h2
        /\ surfaces[h1].instance = surfaces[h2].instance
        /\ Len(surfaces[h1].destroyedBy) = 1
        /\ \E w \in owned : w.handle = h2

\* C8: a call with a descriptor no builder of the build handles fails with
\* the same failure whatever the state, and leaves the function tables, the
\* views, the layers, the surfaces and the wrappers as they were; so a
\* second such call ends in the state the first one started from.
C8_FailureIdempotent ==
    [][(last' # last /\ last'.window_info.type \notin CompiledTypes(build)) =>
          /\ last'.result = "SurfaceInitializationFailed"
          /\ last'.surface = NullSurface
          /\ last'.trace = <<ThrowEv>>
          /\ UNCHANGED <<build, dld, views, contentsScale, surfaces, owned>>
      ]_vars

\* an unsupported call made on an instance that owns a live surface
C8_Witness ==
    /\ Called /\ ~Compiled /\ Failed
    /\ \E w \in owned : w.owner = last.instance

\* C9: when the layer class resolves and the layer instantiates, on return
\* the view is layer-backed, the returned layer is the one attached to the
\* view, its content scale is the backing scale factor of the main screen,
\* and the messages were sent in the order setWantsLayer:, setLayer:,
\* mainScreen, backingScaleFactor, setContentsScale:.
C9_AdapterSuccess ==
    (AppleCall /\ LayerAvailable) =>
        /\ last.layer # 0
        /\ LastView.wantsLayer
        /\ LastView.layer = last.layer
        /\ last.layer \in 1..Len(contentsScale)
        /\ last.env.screen # 0 => contentsScale[last.layer] = last.env.scale
        /\ CountOp(last.trace, {"setWantsLayer:"}) = 1
        /\ CountOp(last.trace, {"setLayer:"}) = 1
        /\ CountOp(last.trace, {"mainScreen"}) = 1
        /\ CountOp(last.trace, {"backingScaleFactor"}) = 1
        /\ CountOp(last.trace, {"setContentsScale:"}) = 1
        /\ FirstOp(last.trace, {"setWantsLayer:"})
              < FirstOp(last.trace, {"setLayer:"})
        /\ FirstOp(last.trace, {"setLayer:"})
              < FirstOp(last.trace, {"mainScreen"})
        /\ FirstOp(last.trace, {"mainScreen"})
              < FirstOp(last.trace, {"backingScaleFactor"})
        /\ FirstOp(last.trace, {"backingScaleFactor"})
              < FirstOp(last.trace, {"setContentsScale:"})
        /\ \E k \in 1..Len(last.trace) :
              /\ last.trace[k].op = "setContentsScale:"
              /\ last.trace[k].obj = last.layer
              /\ last.trace[k].arg = contentsScale[last.layer]

\* a screen of scale 2 gave the layer the content scale 2
C9_Witness ==
    /\ AppleCall /\ LayerAvailable
    /\ last.env.screen # 0 /\ last.env.scale = 2
    /\ contentsScale[last.layer] = 2

====
